---- MODULE Spec2Model ----
(***************************************************************************)
(* Model of pkg/kritis/cryptolib/pgp.go: NewPgpSigner, the steps of        *)
(* pgpSigner.CreateAttestation run by concurrent callers on one shared     *)
(* Signer, and the steps of pgpVerifierImpl.verifyPgp.                     *)
(*                                                                         *)
(* The openpgp and armor packages are called, not defined, by pgp.go.      *)
(* Each call is modelled at its call site by what the call does to the     *)
(* data pgp.go hands it:                                                   *)
(*   - an armored text is its framing (begin line, crc line, end line)     *)
(*     around a packet stream: one-pass signature header, literal data     *)
(*     packet, trailing signature packet;                                  *)
(*   - a signature value names the key that made it and the bytes it was   *)
(*     made over (an ideal signature: it verifies under that key and       *)
(*     those bytes only); tag 1 is a value no key produced;                *)
(*   - the armor reader checks the crc line only when it is read to its    *)
(*     end; a stream cut short ends in a read error either way.            *)
(***************************************************************************)
EXTENDS Integers, Sequences, FiniteSets, TLC

\* Bounds of the model.
MaxKeys == 2
MaxLen == 1
MaxCalls == 2
MaxBody == 2
FpLen == 2

Keys == 1..MaxKeys
Calls == 1..MaxCalls
Bit == 0..1
KeyIdSpace == 0..3

RECURSIVE SeqsUpTo(_, _)
SeqsUpTo(S, n) ==
  IF n = 0 THEN {<<>>}
  ELSE LET shorter == SeqsUpTo(S, n - 1)
       IN shorter \cup {Append(s, x) : s \in {t \in shorter : Len(t) = n - 1}, x \in S}

\* Payloads: arbitrary byte sequences, here over two byte values.
Payloads == SeqsUpTo(Bit, MaxLen)

\* The bodies of the messages handed to verifyPgp directly.
Bodies == SeqsUpTo(Bit, MaxBody)

----------------------------------------------------------------------------
\* Keys (openpgp.Entity).

\* key.PrimaryKey.Fingerprint: the bytes of key k's fingerprint.
Fingerprint(k) ==
  [i \in 1..FpLen |-> IF i = FpLen THEN 171 + k ELSE (59 + 16 * i) % 256]

\* The key id the packets carry: the low bits of the fingerprint.
KeyIdOf(k) == Fingerprint(k)[FpLen] % 4

\* An entity of a key ring.  canSign: it holds a usable private signing key
\* (openpgp.Sign accepts it).  signOK: Signature.Sign succeeds with it.
Entities ==
  {e \in [key : Keys, canSign : BOOLEAN, signOK : BOOLEAN] : e.signOK => e.canSign}

Pub(k) == [key |-> k, canSign |-> FALSE, signOK |-> FALSE]

Distinct(r) == \A i, j \in 1..Len(r) : i # j => r[i].key # r[j].key

Rings == {r \in SeqsUpTo(Entities, MaxKeys) : Distinct(r)}
PublicRings == {r \in Rings : \A i \in 1..Len(r) : r[i] = Pub(r[i].key)}

\* Armored key material: wellFormed is FALSE for bytes ReadArmoredKeyRing
\* rejects.
Malformed == [wellFormed |-> FALSE, keys |-> <<>>]
Armored(r) == [wellFormed |-> TRUE, keys |-> r]
KeyInputs == {Malformed} \cup {Armored(r) : r \in Rings}
PublicKeyInputs == {Malformed} \cup {Armored(r) : r \in PublicRings}

\* openpgp.ReadArmoredKeyRing.
ReadArmoredKeyRing(input) ==
  IF input.wellFormed THEN [keyring |-> input.keys, err |-> "nil"]
  ELSE [keyring |-> <<>>, err |-> "ErrKeyRing"]

----------------------------------------------------------------------------
\* fmt.Sprintf("%X", bytes)

HexUpper == <<"0", "1", "2", "3", "4", "5", "6", "7",
              "8", "9", "A", "B", "C", "D", "E", "F">>
HexLower == <<"0", "1", "2", "3", "4", "5", "6", "7",
              "8", "9", "a", "b", "c", "d", "e", "f">>

HexWith(digits, bytes) ==
  [i \in 1..(2 * Len(bytes)) |->
     LET b == bytes[(i + 1) \div 2]
     IN IF i % 2 = 1 THEN digits[(b \div 16) + 1] ELSE digits[(b % 16) + 1]]

SprintfLowerX(bytes) == HexWith(HexLower, bytes)

SprintfX(bytes) == HexWith(HexUpper, bytes)

----------------------------------------------------------------------------
\* State.

VARIABLES
  ctor,    \* the NewPgpSigner call: its input and what it returned
  signer,  \* the pgpSigner shared by all callers (NoSigner before it is built)
  calls,   \* per caller: position in CreateAttestation, payload, buffer, result
  ver      \* the verifyPgp run: position, inputs, locals, result

vars == <<ctor, signer, calls, ver>>

Nil == [nil |-> TRUE]
NoSigner == Nil

\* A non-nil []byte.
Bytes(b) == [nil |-> FALSE, bytes |-> b]

\* Packets of a stream; an absent packet has present = FALSE.
NoOps == [present |-> FALSE]
NoLit == [present |-> FALSE]
NoSig == [present |-> FALSE]

\* bytes.Buffer{} (line 96): nothing written yet.
EmptyBuf ==
  [begin |-> FALSE, ops |-> NoOps, lit |-> NoLit, sig |-> NoSig,
   crc |-> "none", end |-> FALSE]

IdleCall ==
  [pc |-> "idle", payload |-> <<>>, buf |-> EmptyBuf, closeErr |-> "nil",
   result |-> Nil]

IdleVer ==
  [pc |-> "idle", signature |-> EmptyBuf, publicKey |-> Malformed,
   origin |-> Nil, keyring |-> <<>>, md |-> Nil, payload |-> <<>>,
   unread |-> <<>>, stages |-> <<>>, result |-> Nil]

Init ==
  /\ ctor = [pc |-> "init", input |-> Malformed, err |-> "nil", count |-> 0]
  /\ signer = NoSigner
  /\ calls = [c \in Calls |-> IdleCall]
  /\ ver = IdleVer

----------------------------------------------------------------------------
\* NewPgpSigner (lines 76-89).

\* Line 81: the key-count check.
KeyCountBad(keyring) == Len(keyring) # 1

\* A Signer whose key id is formatted with %x.
PgpSignerLowerHex(key) ==
  [privateKey |-> key, publicKeyID |-> SprintfLowerX(Fingerprint(key.key))]

\* Lines 85-88: the Signer built from the ring's only key.
PgpSigner(key) ==
  [privateKey |-> key, publicKeyID |-> SprintfX(Fingerprint(key.key))]

NewPgpSigner(input) ==
  /\ ctor.pc = "init"
  /\ LET r == ReadArmoredKeyRing(input)
     IN IF r.err # "nil"
        THEN /\ ctor' = [pc |-> "done", input |-> input, err |-> "ErrKeyRing",
                         count |-> 0]
             /\ signer' = NoSigner
        ELSE IF KeyCountBad(r.keyring)
        THEN /\ ctor' = [pc |-> "done", input |-> input, err |-> "ErrKeyCount",
                         count |-> Len(r.keyring)]
             /\ signer' = NoSigner
        ELSE /\ ctor' = [pc |-> "done", input |-> input, err |-> "nil",
                         count |-> 0]
             /\ signer' = PgpSigner(r.keyring[1])
  /\ UNCHANGED <<calls, ver>>

----------------------------------------------------------------------------
\* pgpSigner.CreateAttestation (lines 94-123), one step per statement.  The
\* callers share `signer`; everything else a call touches is its own.
\*
\* verifyPgp reads its two arguments only and shares no state with the
\* calls, so its steps are not interleaved with theirs: a run starts on a
\* returned attestation once no call is in progress (Quiet), and no call
\* starts after it.

Quiet == \A c \in Calls : calls[c].pc \in {"idle", "returned"}

\* Entry and line 96: the call gets its payload and a fresh buffer.
CallBegin(c, p) ==
  /\ signer # NoSigner
  /\ ver.pc = "idle"
  /\ calls[c].pc = "idle"
  /\ calls' = [calls EXCEPT ![c] = [IdleCall EXCEPT !.pc = "encode", !.payload = p]]
  /\ UNCHANGED <<ctor, signer, ver>>

\* Lines 99-102: armor.Encode writes the begin line.  Its only error is a
\* failed write, which a bytes.Buffer never reports.
ArmorEncode(c) ==
  /\ calls[c].pc = "encode"
  /\ calls' = [calls EXCEPT ![c].pc = "sign", ![c].buf.begin = TRUE]
  /\ UNCHANGED <<ctor, signer, ver>>

\* A Sign that accepts every entity.
SignNeverRefuses(key) == FALSE

\* openpgp.Sign's own check of the entity (line 104).
SignRefuses(key) == ~key.canSign

\* Lines 104-107: openpgp.Sign.  It refuses an entity without a usable
\* private signing key; otherwise it writes the one-pass signature header
\* and opens the literal data packet.
Sign(c) ==
  /\ calls[c].pc = "sign"
  /\ IF SignRefuses(signer.privateKey)
     THEN calls' = [calls EXCEPT ![c].pc = "returned",
                                 ![c].result = [att |-> Nil, err |-> "ErrSign"]]
     ELSE calls' = [calls EXCEPT
            ![c].pc = "write",
            ![c].buf.ops = [present |-> TRUE,
                            keyId |-> KeyIdOf(signer.privateKey.key),
                            bad |-> FALSE],
            ![c].buf.lit = [present |-> TRUE, meta |-> 0, body |-> <<>>,
                            bad |-> FALSE, closed |-> FALSE]]
  /\ UNCHANGED <<ctor, signer, ver>>

\* Lines 109-112: the payload goes into the literal data packet (and the
\* hash).  The write ends in a bytes.Buffer and reports no error.
Write(c) ==
  /\ calls[c].pc = "write"
  /\ calls' = [calls EXCEPT ![c].pc = "closeSignature",
                            ![c].buf.lit.body = calls[c].payload]
  /\ UNCHANGED <<ctor, signer, ver>>

\* What signatureWriter.Close() returns: Signature.Sign fails with a key
\* whose signing operation fails.
SignatureCloseErr(key) == IF key.signOK THEN "nil" ELSE "ErrSign"

\* The buffer after signatureWriter.Close(): Signature.Sign runs first; when
\* it fails Close returns before the literal packet is ended and before any
\* signature packet is written.
SignatureClosed(buf, key) ==
  IF SignatureCloseErr(key) = "nil"
  THEN [buf EXCEPT !.lit.closed = TRUE,
                   !.sig = [present |-> TRUE, by |-> key.key,
                            over |-> buf.lit.body, tag |-> 0, bad |-> FALSE]]
  ELSE buf

\* Line 116: signatureWriter.Close(); the error it returns is dropped
\* (closeErr records what was returned).
CloseSignature(c) ==
  /\ calls[c].pc = "closeSignature"
  /\ calls' = [calls EXCEPT
       ![c].pc = "closeArmor",
       ![c].closeErr = SignatureCloseErr(signer.privateKey),
       ![c].buf = SignatureClosed(calls[c].buf, signer.privateKey)]
  /\ UNCHANGED <<ctor, signer, ver>>

\* Line 118: armorWriter.Close() writes the crc line and the end line.
CloseArmor(c) ==
  /\ calls[c].pc = "closeArmor"
  /\ calls' = [calls EXCEPT ![c].pc = "return", ![c].buf.crc = "match",
                            ![c].buf.end = TRUE]
  /\ UNCHANGED <<ctor, signer, ver>>

\* Lines 119-122: the Attestation returned.
Attestation(c, s) ==
  [PublicKeyID |-> s.publicKeyID, Signature |-> calls[c].buf]

Return(c) ==
  /\ calls[c].pc = "return"
  /\ calls' = [calls EXCEPT ![c].pc = "returned",
                            ![c].result = [att |-> Attestation(c, signer),
                                           err |-> "nil"]]
  /\ UNCHANGED <<ctor, signer, ver>>

CreateAttestation(c) ==
  \/ \E p \in Payloads : CallBegin(c, p)
  \/ ArmorEncode(c)
  \/ Sign(c)
  \/ Write(c)
  \/ CloseSignature(c)
  \/ CloseArmor(c)
  \/ Return(c)

----------------------------------------------------------------------------
\* pgpVerifierImpl.verifyPgp (lines 35-67), one step per statement.

\* armor.Decode (line 41): it needs the begin line of a block.
ArmorDecode(signature) ==
  IF signature.begin
  THEN [block |-> signature, err |-> "nil"]
  ELSE [block |-> Nil, err |-> "ErrArmor"]

\* A lookup that takes the ring's first key whatever the key id.
KeysByIdAny(keyring, id) == IF keyring = <<>> THEN Nil ELSE keyring[1]

\* EntityList.KeysByIdUsage: the first key of the ring with this key id.
KeysById(keyring, id) ==
  LET hits == {i \in 1..Len(keyring) : KeyIdOf(keyring[i].key) = id}
  IN IF hits = {} THEN Nil
     ELSE keyring[CHOOSE i \in hits : \A j \in hits : i <= j]

\* openpgp.ReadMessage (line 46): it reads up to the literal data packet.
\* A message without one-pass header is returned as unsigned; with one, the
\* signer is looked up in the ring, and a miss is no error.
ReadMessage(block, keyring) ==
  IF (block.ops.present /\ block.ops.bad) \/ ~block.lit.present
  THEN [md |-> Nil, err |-> "ErrMessage"]
  ELSE IF block.lit.bad
  THEN [md |-> Nil, err |-> "ErrMessage"]
  ELSE [md |-> [IsSigned |-> block.ops.present,
                SignedBy |-> IF block.ops.present
                             THEN KeysById(keyring, block.ops.keyId)
                             ELSE Nil,
                Signature |-> Nil,
                SignatureError |-> "nil"],
        err |-> "nil"]

\* A check that does not compare the bytes the value was made over.
VerifySignatureUnhashed(key, hashed, sig) ==
  IF sig.by = key /\ sig.tag = 0 THEN "nil" ELSE "ErrMismatch"

\* PublicKey.VerifySignature: the value must have been made by this key
\* over these bytes.
VerifySignature(key, hashed, sig) ==
  IF sig.by = key /\ sig.over = hashed /\ sig.tag = 0
  THEN "nil" ELSE "ErrMismatch"

\* What reading UnverifiedBody to its end leaves in MessageDetails.  Only
\* when the signer's key was found is the body wrapped in the reader that
\* fetches and checks the trailing signature packet; a missing or unreadable
\* trailer sets SignatureError.
AtEndOfBody(md, block, read) ==
  IF md.SignedBy = Nil THEN md
  ELSE IF ~block.sig.present THEN [md EXCEPT !.SignatureError = "EOF"]
  ELSE IF block.sig.bad THEN [md EXCEPT !.SignatureError = "ErrStructural"]
  ELSE [md EXCEPT !.Signature = block.sig,
                  !.SignatureError = VerifySignature(md.SignedBy.key, read, block.sig)]

\* The run's first state: the two arguments, nothing done yet.
StartVer(signature, publicKey, origin) ==
  [IdleVer EXCEPT !.pc = "readKeyRing", !.signature = signature,
                  !.publicKey = publicKey, !.origin = origin]

\* A failing return that hands out the bytes read so far.
FailKeepingPayload(kind) == [payload |-> Bytes(ver.payload), err |-> kind]

\* `return nil, err`.
Fail(kind) == [payload |-> Nil, err |-> kind]

Returned(v, result) == [v EXCEPT !.pc = "returned", !.result = result]

Done(v, stage, pc) == [v EXCEPT !.stages = Append(v.stages, stage), !.pc = pc]

\* Lines 36-39.
VerReadKeyRing ==
  /\ ver.pc = "readKeyRing"
  /\ LET r == ReadArmoredKeyRing(ver.publicKey)
     IN ver' = IF r.err # "nil" THEN Returned(ver, Fail("ErrKeyRing"))
               ELSE [Done(ver, "keyring", "decode") EXCEPT !.keyring = r.keyring]
  /\ UNCHANGED <<ctor, signer, calls>>

\* Lines 41-44.
VerArmorDecode ==
  /\ ver.pc = "decode"
  /\ LET r == ArmorDecode(ver.signature)
     IN ver' = IF r.err # "nil" THEN Returned(ver, Fail("ErrArmor"))
               ELSE Done(ver, "armor", "readMessage")
  /\ UNCHANGED <<ctor, signer, calls>>

\* Lines 46-49.
VerReadMessage ==
  /\ ver.pc = "readMessage"
  /\ LET r == ReadMessage(ver.signature, ver.keyring)
     IN ver' = IF r.err # "nil" THEN Returned(ver, Fail("ErrMessage"))
               ELSE [Done(ver, "message", "readAll") EXCEPT
                       !.md = r.md,
                       !.unread = ver.signature.lit.body]
  /\ UNCHANGED <<ctor, signer, calls>>

\* Line 53, ioutil.ReadAll: one Read that returns bytes.
VerReadChunk ==
  /\ ver.pc = "readAll"
  /\ ver.unread # <<>>
  /\ ver' = [ver EXCEPT !.payload = Append(ver.payload, Head(ver.unread)),
                        !.unread = Tail(ver.unread)]
  /\ UNCHANGED <<ctor, signer, calls>>

\* The error ReadAll returns (line 54): a literal packet that was never
\* ended runs into the end of the input.
ReadAllErr(block) == IF block.lit.closed THEN "nil" ELSE "ErrBody"

\* Lines 53-56, the Read that finds the end of the body.
VerReadEnd ==
  /\ ver.pc = "readAll"
  /\ ver.unread = <<>>
  /\ ver' = IF ReadAllErr(ver.signature) # "nil"
            THEN Returned(ver, Fail("ErrBody"))
            ELSE [Done(ver, "body", "checkSignatureError") EXCEPT
                    !.md = AtEndOfBody(ver.md, ver.signature, ver.payload)]
  /\ UNCHANGED <<ctor, signer, calls>>

\* Line 60 without its check.
SignatureErrorIgnored(md) == FALSE

\* Line 60.
SignatureErrorSet(md) == md.SignatureError # "nil"

\* Lines 60-62.
VerCheckSignatureError ==
  /\ ver.pc = "checkSignatureError"
  /\ ver' = IF SignatureErrorSet(ver.md)
            THEN Returned(ver, Fail("ErrSignature"))
            ELSE Done(ver, "sigerr", "checkSignature")
  /\ UNCHANGED <<ctor, signer, calls>>

\* Line 63 without its check.
SignatureNeverMissing(md) == FALSE

\* Line 63.
SignatureMissing(md) == md.Signature = Nil

\* The value returned at line 66.
Success(v) == [payload |-> Bytes(v.payload), err |-> "nil"]

\* Lines 63-66.
VerCheckSignature ==
  /\ ver.pc = "checkSignature"
  /\ ver' = IF SignatureMissing(ver.md)
            THEN Returned(ver, Fail("ErrMissing"))
            ELSE Returned(Done(ver, "sigpresent", "returned"), Success(ver))
  /\ UNCHANGED <<ctor, signer, calls>>

verifyPgp ==
  \/ VerReadKeyRing
  \/ VerArmorDecode
  \/ VerReadMessage
  \/ VerReadChunk
  \/ VerReadEnd
  \/ VerCheckSignatureError
  \/ VerCheckSignature

----------------------------------------------------------------------------
\* Inputs of verifyPgp.

Flip(b) == 1 - b

\* The key id with bit i flipped.
FlipKeyId(id, i) ==
  IF i = 0 THEN ((id \div 2) * 2) + Flip(id % 2)
  ELSE (Flip(id \div 2) * 2) + (id % 2)

\* Every armored signature that differs from `a` by one flipped bit of its
\* body.  A flipped bit lands in the key id of the one-pass header, in the
\* rest of that header (unreadable, or an unknown packet that is skipped),
\* in the literal packet's header (its unsigned fields, or its framing), in
\* the payload bytes, in the end of the literal packet, in the signature
\* packet (its value, or its framing), or in the crc line.
Tampered(a) ==
  LET body == [a EXCEPT !.crc = "mismatch"]
  IN  {[body EXCEPT !.ops.keyId = FlipKeyId(a.ops.keyId, i)] : i \in 0..1}
        \cup {[body EXCEPT !.ops.bad = TRUE], [body EXCEPT !.ops = NoOps]}
        \cup {[body EXCEPT !.lit.meta = Flip(a.lit.meta)],
              [body EXCEPT !.lit.bad = TRUE],
              [body EXCEPT !.lit.closed = FALSE]}
        \cup {[body EXCEPT !.lit.body[i] = Flip(a.lit.body[i])] :
                i \in 1..Len(a.lit.body)}
        \cup {[body EXCEPT !.sig.tag = Flip(a.sig.tag)],
              [body EXCEPT !.sig.bad = TRUE]}
        \cup {body}

\* A valid attestation: one a call returned after every signing step
\* succeeded.
Valid(c) ==
  /\ calls[c].pc = "returned"
  /\ calls[c].result.err = "nil"
  /\ calls[c].closeErr = "nil"

\* verifyPgp on the signature a call returned.
VerifyAttestation(c, publicKey) ==
  /\ Quiet
  /\ ver.pc = "idle"
  /\ calls[c].pc = "returned"
  /\ calls[c].result.err = "nil"
  /\ ver' = StartVer(calls[c].result.att.Signature, publicKey,
                     [kind |-> "attestation", call |-> c])
  /\ UNCHANGED <<ctor, signer, calls>>

\* verifyPgp on a valid attestation's signature with one bit flipped.
VerifyTampered(c, publicKey) ==
  /\ Quiet
  /\ ver.pc = "idle"
  /\ Valid(c)
  /\ \E t \in Tampered(calls[c].result.att.Signature) :
       ver' = StartVer(t, publicKey, [kind |-> "tampered", call |-> c])
  /\ UNCHANGED <<ctor, signer, calls>>

\* The whole system: one Signer, its concurrent callers, and verification
\* of what they returned.
Next ==
  \/ \E input \in KeyInputs : NewPgpSigner(input)
  \/ \E c \in Calls : CreateAttestation(c)
  \/ \E c \in Calls, pk \in PublicKeyInputs : VerifyAttestation(c, pk)
  \/ \E c \in Calls, pk \in PublicKeyInputs : VerifyTampered(c, pk)
  \/ verifyPgp

Spec == Init /\ [][Next]_vars

\* The Signer and its concurrent callers alone.
NextSign ==
  \/ \E input \in KeyInputs : NewPgpSigner(input)
  \/ \E c \in Calls : CreateAttestation(c)

SpecSign == Init /\ [][NextSign]_vars

\* One caller, and verification of what it returned.
NextSignThenVerify ==
  \/ \E input \in KeyInputs : NewPgpSigner(input)
  \/ CreateAttestation(1)
  \/ \E pk \in PublicKeyInputs : VerifyAttestation(1, pk)
  \/ \E pk \in PublicKeyInputs : VerifyTampered(1, pk)
  \/ verifyPgp

SpecSignThenVerify == Init /\ [][NextSignThenVerify]_vars

----------------------------------------------------------------------------
\* verifyPgp as a function of its two arguments: every input pair of a
\* bounded set of armored texts and key materials, one run each.

CraftedOps ==
  {NoOps}
    \cup {[present |-> TRUE, keyId |-> q, bad |-> FALSE] : q \in KeyIdSpace}
    \cup {[present |-> TRUE, keyId |-> 0, bad |-> TRUE]}

CraftedLit ==
  {NoLit}
    \cup {[present |-> TRUE, meta |-> 0, body |-> p, bad |-> FALSE, closed |-> cl] :
            p \in Bodies, cl \in BOOLEAN}
    \cup {[present |-> TRUE, meta |-> 0, body |-> <<>>, bad |-> TRUE, closed |-> TRUE]}

CraftedSig ==
  {NoSig}
    \cup {[present |-> TRUE, by |-> k, over |-> p, tag |-> 0, bad |-> FALSE] :
            k \in Keys, p \in Bodies}
    \cup {[present |-> TRUE, by |-> 1, over |-> <<>>, tag |-> 1, bad |-> FALSE],
          [present |-> TRUE, by |-> 1, over |-> <<>>, tag |-> 0, bad |-> TRUE]}

Crafted ==
  {[begin |-> b, ops |-> o, lit |-> l, sig |-> g, crc |-> "match", end |-> TRUE] :
     b \in BOOLEAN, o \in CraftedOps, l \in CraftedLit, g \in CraftedSig}

InitVerify ==
  /\ ctor = [pc |-> "init", input |-> Malformed, err |-> "nil", count |-> 0]
  /\ signer = NoSigner
  /\ calls = [c \in Calls |-> IdleCall]
  /\ \E s \in Crafted, pk \in PublicKeyInputs :
       ver = StartVer(s, pk, [kind |-> "crafted", call |-> 0])

SpecVerify == InitVerify /\ [][verifyPgp]_vars

----------------------------------------------------------------------------
\* Properties.

\* A run's result on a failing path.
Rejected(kind) == [payload |-> Nil, err |-> kind]

\* The armored public key of the Signer's key.
SignerPublicKey == Armored(<<Pub(signer.privateKey.key)>>)

\* The run verified the untouched signature call c returned.
VerifiedAttestationOf(c) ==
  /\ ver.pc = "returned"
  /\ ver.origin = [kind |-> "attestation", call |-> c]

\* The run verified call c's signature with one bit flipped.
VerifiedTamperedOf(c) ==
  /\ ver.pc = "returned"
  /\ ver.origin = [kind |-> "tampered", call |-> c]

\* C1: round trip.  Whenever NewPgpSigner succeeded and CreateAttestation(P)
\* returned an Attestation with a nil error, verifyPgp of its Signature
\* under the signer's public key returns exactly P and a nil error.
RoundTrip ==
  \A c \in Calls :
    (VerifiedAttestationOf(c) /\ ver.publicKey = SignerPublicKey)
      => ver.result = [payload |-> Bytes(calls[c].payload), err |-> "nil"]

\* The round trip of an attestation whose every signing step succeeded.
RoundTripOfSigned ==
  \A c \in Calls :
    (VerifiedAttestationOf(c) /\ Valid(c) /\ ver.publicKey = SignerPublicKey)
      => ver.result = [payload |-> Bytes(calls[c].payload), err |-> "nil"]

\* C2: verifyPgp returns a payload with a nil error or a nil payload with an
\* error; on every failing path the payload returned is nil, also after
\* payload bytes were read; before it returns, nothing is returned.
NoPartialResult ==
  /\ ver.pc # "returned" => ver.result = Nil
  /\ ver.pc = "returned" =>
       \/ /\ ver.result.err = "nil"
          /\ ver.result.payload # Nil
          /\ ver.result.payload.bytes \in Bodies
       \/ /\ ver.result.err \in {"ErrKeyRing", "ErrArmor", "ErrMessage",
                                 "ErrBody", "ErrSignature", "ErrMissing"}
          /\ ver.result.payload = Nil

\* C2 witness: a run that failed after it had read payload bytes.
FailedAfterReading ==
  /\ ver.pc = "returned"
  /\ ver.result.err = "ErrSignature"
  /\ ver.result.payload = Nil
  /\ Len(ver.payload) > 0

\* A valid attestation of call c was verified against a well-formed key
\* ring without the signer's key.
WrongKeyRun(c) ==
  /\ VerifiedAttestationOf(c)
  /\ Valid(c)
  /\ ver.publicKey.wellFormed
  /\ \A i \in 1..Len(ver.publicKey.keys) :
       ver.publicKey.keys[i].key # signer.privateKey.key

\* C3 as stated: the wrong-key run ends in a key-not-found error that is
\* neither the signature-error nor the missing-signature outcome.
WrongKeyIsKeyNotFound ==
  \A c \in Calls :
    WrongKeyRun(c) =>
      /\ ver.result.payload = Nil
      /\ ver.result.err \notin {"nil", "ErrSignature", "ErrMissing"}

\* C3 as amended: the wrong-key run returns no payload and the
\* missing-signature error, the outcome of a message without signature.
WrongKeyIsMissingSignature ==
  \A c \in Calls : WrongKeyRun(c) => ver.result = Rejected("ErrMissing")

\* C3 witness: a wrong-key run over a non-empty ring.
WrongKeyRejected ==
  \E c \in Calls : WrongKeyRun(c) /\ Len(ver.publicKey.keys) > 0

CoveredIntact(c) ==
  LET a == calls[c].result.att.Signature
      t == ver.signature
  IN  /\ t.ops = a.ops
      /\ t.sig = a.sig
      /\ t.lit.body = a.lit.body
      /\ t.lit.bad = a.lit.bad
      /\ t.lit.closed = a.lit.closed

UpperHexValue(ch) ==
  IF \E i \in 1..16 : HexUpper[i] = ch
  THEN (CHOOSE i \in 1..16 : HexUpper[i] = ch) - 1
  ELSE 16

\* C5: given key material that parses, NewPgpSigner returns the key-count
\* error with the actual count and no Signer when the ring has 0 or 2 or
\* more keys, and with exactly 1 key a Signer whose publicKeyID is the
\* upper-case hexadecimal of that key's fingerprint.
KeyCountValidation ==
  (ctor.pc = "done" /\ ctor.input.wellFormed) =>
    IF Len(ctor.input.keys) # 1
    THEN /\ ctor.err = "ErrKeyCount"
         /\ ctor.count = Len(ctor.input.keys)
         /\ signer = NoSigner
    ELSE /\ ctor.err = "nil"
         /\ signer # NoSigner
         /\ signer.privateKey = ctor.input.keys[1]
         /\ Len(signer.publicKeyID) = 2 * FpLen
         /\ \A i \in 1..FpLen :
              /\ UpperHexValue(signer.publicKeyID[2 * i - 1]) < 16
              /\ UpperHexValue(signer.publicKeyID[2 * i]) < 16
              /\ 16 * UpperHexValue(signer.publicKeyID[2 * i - 1])
                   + UpperHexValue(signer.publicKeyID[2 * i])
                 = Fingerprint(signer.privateKey.key)[i]

\* C5 witness: a Signer was built from a ring of one key whose fingerprint
\* has a letter digit.
SignerBuilt ==
  /\ ctor.pc = "done"
  /\ signer # NoSigner
  /\ \E i \in 1..Len(signer.publicKeyID) :
       UpperHexValue(signer.publicKeyID[i]) \in 10..15

\* The ring NewPgpSigner parsed holds exactly one key, which cannot sign.
OnePublicKey ==
  /\ ctor.pc = "done"
  /\ ctor.input.wellFormed
  /\ Len(ctor.input.keys) = 1
  /\ ~ctor.input.keys[1].canSign

\* C6 as stated: NewPgpSigner returns no Signer unless the ring has exactly
\* one signing-capable key.
SignerNeedsSigningKey ==
  (ctor.pc = "done" /\ signer # NoSigner) =>
    (Len(ctor.input.keys) = 1 /\ ctor.input.keys[1].canSign)

\* C6 as amended: NewPgpSigner checks the count only.  A ring of exactly one
\* key without private component yields a Signer, and every
\* CreateAttestation on it fails with the signing error and no Attestation.
PublicKeySignerFailsAtSigning ==
  OnePublicKey =>
    /\ signer = PgpSigner(ctor.input.keys[1])
    /\ ctor.err = "nil"
    /\ \A c \in Calls :
         /\ calls[c].pc \in {"idle", "encode", "sign", "returned"}
         /\ calls[c].pc = "returned" =>
              calls[c].result = [att |-> Nil, err |-> "ErrSign"]

\* C6 witness: a call on a Signer bound to a public key has returned.
PublicKeySignerCalled ==
  OnePublicKey /\ \E c \in Calls : calls[c].pc = "returned"

\* C7: CreateAttestation returns the signing error and no Attestation
\* whenever the bound key cannot sign or the signing operation fails, also
\* when it fails as the signature writer is closed.
SigningFailureReported ==
  \A c \in Calls :
    (calls[c].pc = "returned"
       /\ (SignRefuses(signer.privateKey) \/ calls[c].closeErr # "nil"))
      => calls[c].result = [att |-> Nil, err |-> "ErrSign"]

\* The part of C7 that the check at line 105 gives.
RefusedKeyReported ==
  \A c \in Calls :
    (calls[c].pc = "returned" /\ SignRefuses(signer.privateKey))
      => calls[c].result = [att |-> Nil, err |-> "ErrSign"]

\* C8: callers sharing one Signer.  The Signer is as NewPgpSigner built it,
\* each call's buffer holds its own payload only, each Attestation returned
\* carries the Signer's publicKeyID, and its Signature verifies under the
\* signer's public key to that call's own payload.
SharedSignerSound ==
  /\ signer # NoSigner => signer = PgpSigner(ctor.input.keys[1])
  /\ \A c \in Calls :
       /\ calls[c].buf.lit.present =>
            calls[c].buf.lit.body \in {<<>>, calls[c].payload}
       /\ (calls[c].pc = "returned" /\ calls[c].result.err = "nil") =>
            /\ calls[c].result.att.PublicKeyID = signer.publicKeyID
            /\ calls[c].result.att.Signature = calls[c].buf
       /\ (VerifiedAttestationOf(c) /\ ver.publicKey = SignerPublicKey) =>
            /\ ver.result.err = "nil"
            /\ ver.result.payload = Bytes(calls[c].payload)

\* The part of C8 about the shared state alone.
SharedSignerUnchanged ==
  /\ signer # NoSigner => signer = PgpSigner(ctor.input.keys[1])
  /\ \A c \in Calls :
       /\ calls[c].buf.lit.present =>
            calls[c].buf.lit.body \in {<<>>, calls[c].payload}
       /\ (calls[c].pc = "returned" /\ calls[c].result.err = "nil") =>
            /\ calls[c].result.att.PublicKeyID = signer.publicKeyID
            /\ calls[c].result.att.Signature = calls[c].buf

AllStages == <<"keyring", "armor", "message", "body", "sigerr", "sigpresent">>

\* The stages completed before the run returns `err`.
StagesBefore(err) ==
  CASE err = "ErrKeyRing" -> 0
    [] err = "ErrArmor" -> 1
    [] err = "ErrMessage" -> 2
    [] err = "ErrBody" -> 3
    [] err = "ErrSignature" -> 4
    [] err = "ErrMissing" -> 5
    [] OTHER -> 6

\* C9: the run completes its stages in the order key ring, armor, message,
\* body, signature-error check, signature-presence check; success is
\* returned only after all six, with the body read to its end, no signature
\* error and a signature; a failure returns at its stage and runs no later
\* one; a verdict on the signature is returned only with no byte unread;
\* the run has one result, set when it returns.
TwoPhaseVerification ==
  /\ \E n \in 0..6 : ver.stages = SubSeq(AllStages, 1, n)
  /\ ver.pc # "returned" => ver.result = Nil
  /\ ver.pc = "returned" =>
       /\ ver.result.err \in {"nil", "ErrKeyRing", "ErrArmor", "ErrMessage",
                              "ErrBody", "ErrSignature", "ErrMissing"}
       /\ ver.stages = SubSeq(AllStages, 1, StagesBefore(ver.result.err))
       /\ ver.result.err \in {"nil", "ErrSignature", "ErrMissing"} =>
            /\ ver.unread = <<>>
            /\ ver.payload = ver.signature.lit.body
       /\ ver.result.err = "nil" =>
            /\ ver.md.SignatureError = "nil"
            /\ ver.md.Signature # Nil
            /\ ver.result.payload = Bytes(ver.signature.lit.body)

\* Once the run has returned, nothing of it changes.
ReturnedIsFinal == [][ver.pc = "returned" => ver' = ver]_vars

\* C9 witness: a run returned success for a payload of more than one read.
ValidAfterAllStages ==
  /\ ver.pc = "returned"
  /\ ver.result.err = "nil"
  /\ Len(ver.result.payload.bytes) > 1

\* The armored input decoded and its stream was read to the end without a
\* trailing signature packet.
NoTrailingSignature ==
  /\ ver.pc = "returned"
  /\ Len(ver.stages) >= 4
  /\ ~ver.signature.sig.present

\* C10 as stated: a stream read to its end without trailing signature
\* packet ends in the missing-signature error and no payload.
NoTrailerIsMissingSignature ==
  NoTrailingSignature => ver.result = Rejected("ErrMissing")

\* C10 as amended: such a run returns no payload; the error is the
\* missing-signature error when the message has no one-pass header or its
\* key id is not in the ring, and the signature error when the one-pass
\* header names a key of the ring (the read of the missing trailer sets
\* SignatureError); the signature error is returned whenever SignatureError
\* is set.
NoTrailerIsRejected ==
  /\ NoTrailingSignature =>
       ver.result =
         IF ver.signature.ops.present
              /\ KeysById(ver.keyring, ver.signature.ops.keyId) # Nil
         THEN Rejected("ErrSignature")
         ELSE Rejected("ErrMissing")
  /\ (ver.pc = "returned" /\ Len(ver.stages) >= 4
        /\ ver.md.SignatureError # "nil")
       => ver.result = Rejected("ErrSignature")

\* C10 witness: a literal-data message without any signature was read to
\* its end and rejected as missing its signature.
UnsignedMessageRejected ==
  /\ NoTrailingSignature
  /\ ~ver.signature.ops.present
  /\ Len(ver.payload) > 0
  /\ ver.result = Rejected("ErrMissing")

====
